---- MODULE Spec2Model ----
(***************************************************************************)
(* Binance futures data fetcher (src/binance_futures.py).                  *)
(*                                                                         *)
(* One process invocation runs one command.  The direct commands (pairs,   *)
(* ohlcv, orderbook, trades, funding) are one action each: banner, client  *)
(* creation, the single remote query and everything printed from its       *)
(* reply.  main_legacy is one action per remote query, since the order of  *)
(* its four queries and where it stops are what is stated about it.        *)
(*                                                                         *)
(* Prices, amounts and timestamps are integers (ticks); a percentage is    *)
(* the exact fraction <<numerator, denominator>>.  The fixed-point         *)
(* rendering of a number (":.2f", ":.1f") is not modelled: a printed line  *)
(* carries the value that is rendered.  None is the integer -1, which no   *)
(* price, amount, size or timestamp takes.                                 *)
(***************************************************************************)
EXTENDS Integers, Sequences, FiniteSets, TLC

VARIABLES
    cmd,        \* the command this invocation runs
    args,       \* its command-line arguments
    pc,         \* "start", the next remote query of main_legacy, "done", "raised"
    clients,    \* number of exchange clients created
    calls,      \* remote queries issued so far, each with its outcome
    out,        \* lines printed so far
    response,   \* reply of the remote query of a direct command
    pairs_data, \* value returned by fetch_futures_pairs_data
    failure,    \* exception class raised by a remote query, "none" if none
    caught,     \* exception class an except clause handled, "none" if none
    raised      \* exception class that left the command, "none" if none

vars == <<cmd, args, pc, clients, calls, out, response, pairs_data,
          failure, caught, raised>>

----------------------------------------------------------------------------
(* Bounds of the model *)

MaxMarkets == 2
MaxLimit == 2
MaxLevels == 2
MaxPrice == 2
MaxTrades == 3
MaxAmount == 2
MaxCandles == 2
LongLen == 11

(* Constants of the program *)

PairsDefaultLimit == 20
OhlcvDefaultLimit == 100
OrderbookDefaultLimit == 20
TradesDefaultLimit == 50
OhlcvTail == 10
OrderbookDisplayCap == 10
TradesTail == 10
LegacyPairsShown == 5
LegacyOhlcvLimit == 100
LegacyOrderbookLimit == 20
LegacyTradesLimit == 50
DefaultContractSize == 1

DefaultSymbol == "BTC/USDT:USDT"
DefaultTimeframe == "1h"

None == 0 - 1

----------------------------------------------------------------------------
(* Python built-ins used by the program *)

Min(a, b) == IF a < b THEN a ELSE b
Max(a, b) == IF a > b THEN a ELSE b

Min3(a, b, c) == Min(a, Min(b, c))

\* s[:k]
SliceTo(s, k) ==
    LET n == Len(s)
        stop == IF k < 0 THEN Max(n + k, 0) ELSE Min(k, n)
    IN  SubSeq(s, 1, stop)

\* s[-k:] for k > 0
SliceLast(s, k) ==
    LET n == Len(s)
    IN  SubSeq(s, Max(n - k, 0) + 1, n)

\* d.get(k, default)
DictGet(d, k, default) == IF k \in DOMAIN d THEN d[k] ELSE default

\* truth value of a flag of the market metadata
Truthy(v) == v \notin {"False", "None"}

\* exchange.iso8601(ts): rendering done by the client library
iso8601(ts) == [iso8601 |-> ts]

\* exception classes: the client library's hierarchy under Exception, and the
\* built-in errors the commands themselves can raise
Parent(e) ==
    CASE e = "RequestTimeout" -> "NetworkError"
      [] e = "BadSymbol"      -> "ExchangeError"
      [] e = "NetworkError"   -> "BaseError"
      [] e = "ExchangeError"  -> "BaseError"
      [] e = "BaseError"      -> "Exception"
      [] e = "KeyError"       -> "Exception"
      [] e = "ValueError"     -> "Exception"
      [] e = "TypeError"      -> "Exception"
      [] e = "IndexError"     -> "Exception"
      [] e = "ZeroDivisionError" -> "Exception"
      [] OTHER                -> "object"

RECURSIVE IsInstance(_, _)
IsInstance(e, cls) ==
    IF e = cls THEN TRUE
    ELSE IF e \in {"object", "none"} THEN FALSE
    ELSE IsInstance(Parent(e), cls)

\* what a remote query can raise
RemoteErrors == {"RequestTimeout", "NetworkError", "BadSymbol",
                 "ExchangeError", "BaseError", "Exception"}

----------------------------------------------------------------------------
(* Replies of the exchange *)

Symbols == {"BTC/USDT:USDT", "ETH/USDT:USDT", "BTC/USD:BTC"}
ArgSymbols == {"BTC/USDT:USDT", "ETH/USDT:USDT"}
Timeframes == {"1h", "4h"}
Flags == {"True", "False", "None"}

BaseOf(s) == IF s = "ETH/USDT:USDT" THEN "ETH" ELSE "BTC"
QuoteOf(s) == IF s = "BTC/USD:BTC" THEN "USD" ELSE "USDT"

\* the market entries the catalog can hold for symbol s; contractSize may be
\* absent, None or a number
MarketsFor(s) ==
    {[base |-> BaseOf(s), quote |-> QuoteOf(s), linear |-> l, active |-> a]
        : l \in Flags, a \in Flags}
    \cup
    {[base |-> BaseOf(s), quote |-> QuoteOf(s), linear |-> l, active |-> a,
      contractSize |-> c] : l \in Flags, a \in Flags, c \in {None, 10}}

Items == UNION {{<<s, m>> : m \in MarketsFor(s)} : s \in Symbols}

\* markets.items(): a dict, so the symbols are distinct
Catalogs ==
    UNION {{c \in [1..n -> Items] :
              \A i, j \in 1..n : i # j => c[i][1] # c[j][1]}
           : n \in 0..MaxMarkets}

Prices == 0..MaxPrice

Levels(ps) == [i \in 1..Len(ps) |-> <<ps[i], i>>]

\* bids come in descending price order, asks in ascending order
BidSides ==
    UNION {{Levels(ps) : ps \in {q \in [1..n -> Prices] :
               \A i \in 1..n : i < n => q[i] >= q[i + 1]}}
           : n \in 0..MaxLevels}
    \cup {Levels([i \in 1..LongLen |-> p]) : p \in Prices}

AskSides ==
    UNION {{Levels(ps) : ps \in {q \in [1..n -> Prices] :
               \A i \in 1..n : i < n => q[i] <= q[i + 1]}}
           : n \in 0..MaxLevels}
    \cup {Levels([i \in 1..LongLen |-> p]) : p \in Prices}

OrderBooks ==
    {[timestamp |-> t, bids |-> b, asks |-> a]
        : t \in {None, 1000}, b \in BidSides, a \in AskSides}

Sides == {"buy", "sell", "None"}

TradeLists ==
    UNION {{[i \in 1..n |-> [timestamp |-> i, side |-> k[i][1],
                             price |-> 1, amount |-> k[i][2]]]
              : k \in [1..n -> Sides \X (0..MaxAmount)]}
           : n \in 0..MaxTrades}
    \cup {[i \in 1..LongLen |-> [timestamp |-> i, side |-> s,
                                 price |-> 1, amount |-> 1]] : s \in Sides}

CandleLists ==
    {[i \in 1..n |-> <<i, 1, 2, 0, 1, 3>>]
        : n \in (0..MaxCandles) \cup {LongLen}}

\* a premium-index reply: a list, or a dict whose fields are missing, a
\* string or a number
FieldKinds == {"missing", "str", "num"}

FundingReplies ==
    {[shape |-> "list"]}
    \cup
    {[shape |-> "dict", symbol |-> a, lastFundingRate |-> b, markPrice |-> c,
      indexPrice |-> d, nextFundingTime |-> e]
        : a \in {"missing", "str"}, b \in FieldKinds, c \in FieldKinds,
          d \in FieldKinds, e \in FieldKinds}

----------------------------------------------------------------------------
(* Command-line arguments *)

Commands == {"pairs", "ohlcv", "orderbook", "trades", "funding", "main_legacy"}

Limits == (0 - 1)..MaxLimit

ArgsOf(c) ==
    CASE c = "pairs" ->
           {[limit |-> l] : l \in Limits \cup {PairsDefaultLimit}}
      [] c = "ohlcv" ->
           {[symbol |-> s, timeframe |-> t, limit |-> l]
              : s \in ArgSymbols, t \in Timeframes,
                l \in Limits \cup {OhlcvDefaultLimit}}
      [] c = "orderbook" ->
           {[symbol |-> s, limit |-> l]
              : s \in ArgSymbols, l \in Limits \cup {OrderbookDefaultLimit}}
      [] c = "trades" ->
           {[symbol |-> s, limit |-> l]
              : s \in ArgSymbols, l \in Limits \cup {TradesDefaultLimit}}
      [] c = "funding" -> {[symbol |-> s] : s \in ArgSymbols}
      [] OTHER -> {[none |-> TRUE]}

----------------------------------------------------------------------------
(* fetch_futures_pairs_data *)

\* variant: the filter tests the linear flag alone
KeepMarketLinearOnly(market) == Truthy(DictGet(market, "linear", "None"))

KeepMarket(market) ==
    /\ Truthy(DictGet(market, "linear", "None"))
    /\ Truthy(DictGet(market, "active", "None"))

RECURSIVE LoopMarkets(_, _)
LoopMarkets(items, futures_pairs) ==
    IF items = <<>> THEN futures_pairs
    ELSE LET symbol == Head(items)[1]
             market == Head(items)[2]
         IN  LoopMarkets(Tail(items),
                IF KeepMarket(market)
                THEN Append(futures_pairs,
                       [symbol |-> symbol,
                        base |-> market["base"],
                        quote |-> market["quote"],
                        contract_size |->
                          DictGet(market, "contractSize", DefaultContractSize)])
                ELSE futures_pairs)

fetch_futures_pairs_data(markets) == LoopMarkets(markets, <<>>)

----------------------------------------------------------------------------
(* What each command prints from a reply *)

PairLine(pair) ==
    [kind |-> "pair", symbol |-> pair.symbol, base |-> pair.base,
     quote |-> pair.quote]

PairsLines(data, limit) ==
    LET display_limit == Min(limit, Len(data))
        shown == SliceTo(data, display_limit)
    IN  <<[kind |-> "found", count |-> Len(data)],
          [kind |-> "displaying", count |-> display_limit]>>
        \o [i \in 1..Len(shown) |-> PairLine(shown[i])]

CandleLine(candle) ==
    [kind |-> "candle", timestamp |-> iso8601(candle[1]), o |-> candle[2],
     h |-> candle[3], l |-> candle[4], c |-> candle[5], v |-> candle[6]]

OhlcvLines(candles) ==
    LET shown == SliceLast(candles, OhlcvTail)
    IN  <<[kind |-> "fetched", count |-> Len(candles)],
          [kind |-> "candles_header"]>>
        \o [i \in 1..Len(shown) |-> CandleLine(shown[i])]

LevelLine(k, level) == [kind |-> k, price |-> level[1], amount |-> level[2]]

OrderbookLines(book) ==
    LET display_limit ==
            Min3(OrderbookDisplayCap, Len(book.bids), Len(book.asks))
        bids == SliceTo(book.bids, display_limit)
        asks == SliceTo(book.asks, display_limit)
    IN  <<[kind |-> "book_timestamp", timestamp |-> iso8601(book.timestamp)],
          [kind |-> "book_counts", bids |-> Len(book.bids),
           asks |-> Len(book.asks)],
          [kind |-> "bids_header", top |-> display_limit]>>
        \o [i \in 1..Len(bids) |-> LevelLine("bid", bids[i])]
        \o <<[kind |-> "asks_header", top |-> display_limit]>>
        \o [i \in 1..Len(asks) |-> LevelLine("ask", asks[i])]

\* variant: the guard tests the asks alone
SpreadGuardAsksOnly(book) == book.asks # <<>>

SpreadGuard(book) == book.bids # <<>> /\ book.asks # <<>>

\* variant: the operands of the subtraction exchanged
SpreadSwapped(best_bid, best_ask) == best_bid - best_ask

Spread(best_bid, best_ask) == best_ask - best_bid

\* the body of the spread branch: two index reads, a subtraction, a division
SpreadBody(book) ==
    IF book.bids = <<>> \/ book.asks = <<>>
    THEN [lines |-> <<>>, exc |-> "IndexError"]
    ELSE LET best_bid == book.bids[1][1]
             best_ask == book.asks[1][1]
             spread == Spread(best_bid, best_ask)
         IN  IF best_ask = 0
             THEN [lines |-> <<>>, exc |-> "ZeroDivisionError"]
             ELSE [lines |-> <<[kind |-> "spread", spread |-> spread,
                                spread_pct |-> <<spread * 100, best_ask>>]>>,
                   exc |-> "none"]

SpreadPart(book) ==
    IF SpreadGuard(book) THEN SpreadBody(book)
    ELSE [lines |-> <<>>, exc |-> "none"]

TradeLine(trade) ==
    [kind |-> "trade", timestamp |-> iso8601(trade.timestamp),
     side |-> IF trade.side = "buy" THEN "BUY " ELSE "SELL",
     price |-> trade.price, amount |-> trade.amount]

TradesLines(trades_data) ==
    LET shown == SliceLast(trades_data, TradesTail)
    IN  <<[kind |-> "fetched", count |-> Len(trades_data)],
          [kind |-> "trades_header"]>>
        \o [i \in 1..Len(shown) |-> TradeLine(shown[i])]

\* sum(t["amount"] for t in trades_data if t["side"] in sides)
RECURSIVE SideVolume(_, _)
SideVolume(trades_data, sides) ==
    IF trades_data = <<>> THEN 0
    ELSE (IF Head(trades_data).side \in sides
          THEN Head(trades_data).amount ELSE 0)
         + SideVolume(Tail(trades_data), sides)

buy_volume(trades_data) == SideVolume(trades_data, {"buy"})

\* variant: every trade that is not a buy counts as a sell
sell_volume_not_buy(trades_data) == SideVolume(trades_data, Sides \ {"buy"})

sell_volume(trades_data) == SideVolume(trades_data, {"sell"})

RatioLines(trades_data) ==
    LET buy == buy_volume(trades_data)
        sell == sell_volume(trades_data)
        total_volume == buy + sell
    IN  IF total_volume > 0
        THEN <<[kind |-> "ratio",
                buy_pct |-> <<buy * 100, total_volume>>,
                sell_pct |-> <<sell * 100, total_volume>>]>>
        ELSE <<>>

\* the five fields the funding command prints, in order; fixed: rendered
\* with a fixed-point format
FundingFields ==
    <<[key |-> "symbol", fixed |-> FALSE],
      [key |-> "lastFundingRate", fixed |-> TRUE],
      [key |-> "markPrice", fixed |-> TRUE],
      [key |-> "indexPrice", fixed |-> TRUE],
      [key |-> "nextFundingTime", fixed |-> FALSE]>>

\* what reading and rendering funding[key] raises
FieldError(reply, f) ==
    IF reply.shape = "list" THEN "TypeError"
    ELSE IF reply[f.key] = "missing" THEN "KeyError"
    ELSE IF f.fixed /\ reply[f.key] = "str" THEN "ValueError"
    ELSE "none"

RECURSIVE PrintFunding(_, _, _)
PrintFunding(reply, i, lines) ==
    IF i > Len(FundingFields) THEN [lines |-> lines, exc |-> "none"]
    ELSE LET f == FundingFields[i]
             e == FieldError(reply, f)
         IN  IF e # "none" THEN [lines |-> lines, exc |-> e]
             ELSE PrintFunding(reply, i + 1,
                    Append(lines, [kind |-> "funding_field", key |-> f.key,
                                   value |-> reply[f.key]]))

\* symbol.replace("/", "")
StripSlash(symbol) ==
    CASE symbol = "BTC/USDT:USDT" -> "BTCUSDT:USDT"
      [] symbol = "ETH/USDT:USDT" -> "ETHUSDT:USDT"
      [] symbol = "BTC/USD:BTC"   -> "BTCUSD:BTC"
      [] OTHER -> symbol

\* variant: the clause catches the client library's errors only
FundingCatchesLibraryOnly(e) == IsInstance(e, "BaseError")

\* except Exception
FundingCatches(e) == IsInstance(e, "Exception")

ErrorLine(prefix, e) == [kind |-> "error", prefix |-> prefix, exc |-> e]

Banner(c) == [kind |-> "banner", cmd |-> c]

Call(method, pos, kw, outcome) ==
    [method |-> method, pos |-> pos, kw |-> kw, outcome |-> outcome]

----------------------------------------------------------------------------
Init ==
    /\ cmd \in Commands
    /\ args \in ArgsOf(cmd)
    /\ pc = "start"
    /\ clients = 0
    /\ calls = <<>>
    /\ out = <<>>
    /\ response = <<>>
    /\ pairs_data = <<>>
    /\ failure = "none"
    /\ caught = "none"
    /\ raised = "none"

\* a direct command whose remote query raises e: nothing handles it
Propagate(call, e) ==
    /\ clients' = clients + 1
    /\ calls' = Append(calls, call)
    /\ out' = Append(out, Banner(cmd))
    /\ failure' = e
    /\ raised' = e
    /\ pc' = "raised"
    /\ UNCHANGED <<cmd, args, response, pairs_data, caught>>

\* a direct command that got reply r and printed lines; exc is what the
\* processing of the reply raised
Finish(call, r, lines, exc) ==
    /\ clients' = clients + 1
    /\ calls' = Append(calls, call)
    /\ out' = <<Banner(cmd)>> \o lines
    /\ response' = r
    /\ raised' = exc
    /\ pc' = IF exc = "none" THEN "done" ELSE "raised"
    /\ UNCHANGED <<cmd, args, failure, caught>>

pairs ==
    /\ cmd = "pairs" /\ pc = "start"
    /\ \/ \E e \in RemoteErrors :
            Propagate(Call("load_markets", <<>>, <<>>, e), e)
       \/ \E markets \in Catalogs :
            /\ pairs_data' = fetch_futures_pairs_data(markets)
            /\ Finish(Call("load_markets", <<>>, <<>>, "ok"), markets,
                      PairsLines(pairs_data', args.limit), "none")

ohlcv ==
    /\ cmd = "ohlcv" /\ pc = "start"
    /\ LET call(o) == Call("fetch_ohlcv", <<args.symbol, args.timeframe>>,
                           [limit |-> args.limit], o)
       IN  \/ \E e \in RemoteErrors : Propagate(call(e), e)
           \/ \E candles \in CandleLists :
                /\ Finish(call("ok"), candles, OhlcvLines(candles), "none")
                /\ UNCHANGED pairs_data

orderbook ==
    /\ cmd = "orderbook" /\ pc = "start"
    /\ LET call(o) == Call("fetch_order_book", <<args.symbol>>,
                           [limit |-> args.limit], o)
       IN  \/ \E e \in RemoteErrors : Propagate(call(e), e)
           \/ \E book \in OrderBooks :
                LET part == SpreadPart(book)
                IN  /\ Finish(call("ok"), book,
                              OrderbookLines(book) \o part.lines, part.exc)
                    /\ UNCHANGED pairs_data

trades ==
    /\ cmd = "trades" /\ pc = "start"
    /\ LET call(o) == Call("fetch_trades", <<args.symbol>>,
                           [limit |-> args.limit], o)
       IN  \/ \E e \in RemoteErrors : Propagate(call(e), e)
           \/ \E trades_data \in TradeLists :
                /\ Finish(call("ok"), trades_data,
                          TradesLines(trades_data) \o RatioLines(trades_data),
                          "none")
                /\ UNCHANGED pairs_data

\* the try block of funding ended with exception e ("none": no exception)
FundingEnd(call, r, lines, e) ==
    /\ clients' = clients + 1
    /\ calls' = Append(calls, call)
    /\ response' = r
    /\ IF e = "none"
       THEN /\ out' = <<Banner(cmd)>> \o lines
            /\ caught' = "none" /\ raised' = "none" /\ pc' = "done"
       ELSE IF FundingCatches(e)
       THEN /\ out' = <<Banner(cmd)>> \o lines
                      \o <<ErrorLine("Error fetching funding rate", e)>>
            /\ caught' = e /\ raised' = "none" /\ pc' = "done"
       ELSE /\ out' = <<Banner(cmd)>> \o lines
            /\ caught' = "none" /\ raised' = e /\ pc' = "raised"
    /\ UNCHANGED <<cmd, args, pairs_data>>

funding ==
    /\ cmd = "funding" /\ pc = "start"
    /\ LET call(o) == Call("fapiPublic_get_premiumindex", <<>>,
                           [symbol |-> StripSlash(args.symbol)], o)
       IN  \/ \E e \in RemoteErrors :
                /\ failure' = e
                /\ FundingEnd(call(e), <<>>, <<>>, e)
           \/ \E reply \in FundingReplies :
                LET p == PrintFunding(reply, 1, <<>>)
                IN  /\ failure' = "none"
                    /\ FundingEnd(call("ok"), reply, p.lines, p.exc)

----------------------------------------------------------------------------
(* main_legacy *)

\* variant: the order book is fetched before the candles
LegacyOrderSwapped ==
    <<"load_markets", "fetch_order_book", "fetch_ohlcv", "fetch_trades">>

\* the four remote queries of the try block, in program order
LegacyOrder ==
    <<"load_markets", "fetch_ohlcv", "fetch_order_book", "fetch_trades">>

LegacyCall(method, outcome) ==
    CASE method = "load_markets" -> Call(method, <<>>, <<>>, outcome)
      [] method = "fetch_ohlcv" ->
           Call(method, <<"BTC/USDT:USDT", "1h", LegacyOhlcvLimit>>, <<>>,
                outcome)
      [] method = "fetch_order_book" ->
           Call(method, <<"BTC/USDT:USDT", LegacyOrderbookLimit>>, <<>>,
                outcome)
      [] method = "fetch_trades" ->
           Call(method, <<"BTC/USDT:USDT", LegacyTradesLimit>>, <<>>, outcome)

\* variant: a failed query is skipped and the next one is issued
LegacyNextPcContinue(method, outcome) ==
    LET i == CHOOSE j \in 1..Len(LegacyOrder) : LegacyOrder[j] = method
    IN  IF i = Len(LegacyOrder) THEN "done" ELSE LegacyOrder[i + 1]

\* where main_legacy goes after the query `method` ended with `outcome`
LegacyNextPc(method, outcome) ==
    IF outcome # "ok" THEN "raised"
    ELSE LET i == CHOOSE j \in 1..Len(LegacyOrder) : LegacyOrder[j] = method
         IN  IF i = Len(LegacyOrder) THEN "done" ELSE LegacyOrder[i + 1]

\* variant: only the first except clause is present
LegacyPrefixNetworkOnly(e) ==
    IF IsInstance(e, "NetworkError") THEN "Network error" ELSE "none"

\* the except clauses, in order: the message prefix logged for e, "none" when
\* no clause matches
LegacyPrefix(e) ==
    IF IsInstance(e, "NetworkError") THEN "Network error"
    ELSE IF IsInstance(e, "ExchangeError") THEN "Exchange error"
    ELSE IF IsInstance(e, "BaseError") THEN "CCXT error"
    ELSE "none"

LegacyComplete == <<[kind |-> "complete"]>>

LegacyBegin ==
    /\ cmd = "main_legacy" /\ pc = "start"
    /\ out' = Append(out, Banner(cmd))
    /\ clients' = clients + 1
    /\ pc' = LegacyOrder[1]
    /\ UNCHANGED <<cmd, args, calls, response, pairs_data, failure, caught,
                   raised>>

\* the query raised e: the matching except clause logs it, and it is re-raised
LegacyFail(method, e) ==
    /\ calls' = Append(calls, LegacyCall(method, e))
    /\ failure' = e
    /\ IF LegacyPrefix(e) # "none"
       THEN /\ out' = Append(out, ErrorLine(LegacyPrefix(e), e))
            /\ caught' = e
       ELSE UNCHANGED <<out, caught>>
    /\ raised' = e
    /\ pc' = LegacyNextPc(method, e)
    /\ UNCHANGED <<cmd, args, clients, response, pairs_data>>

\* the query returned: its summary lines are printed, then the next statement
LegacyOk(method, lines) ==
    /\ calls' = Append(calls, LegacyCall(method, "ok"))
    /\ pc' = LegacyNextPc(method, "ok")
    /\ out' = out \o lines
              \o (IF pc' = "done" THEN LegacyComplete ELSE <<>>)
    /\ UNCHANGED <<cmd, args, clients, response, failure, caught, raised>>

LegacyPairs ==
    /\ cmd = "main_legacy" /\ pc = "load_markets"
    /\ \/ \E e \in RemoteErrors :
            LegacyFail("load_markets", e) 
       \/ \E markets \in Catalogs :
            /\ pairs_data' = fetch_futures_pairs_data(markets)
            /\ LET shown == SliceTo(pairs_data', LegacyPairsShown)
               IN  LegacyOk("load_markets",
                     <<[kind |-> "legacy_pairs", count |-> Len(pairs_data')]>>
                     \o [i \in 1..Len(shown) |->
                           [kind |-> "legacy_pair",
                            symbol |-> shown[i].symbol]])

LegacyOhlcv ==
    /\ cmd = "main_legacy" /\ pc = "fetch_ohlcv"
    /\ \/ \E e \in RemoteErrors : LegacyFail("fetch_ohlcv", e)
       \/ \E candles \in CandleLists :
            /\ LegacyOk("fetch_ohlcv",
                 <<[kind |-> "legacy_ohlcv", count |-> Len(candles)]>>)
            /\ UNCHANGED pairs_data

LegacyOrderBook ==
    /\ cmd = "main_legacy" /\ pc = "fetch_order_book"
    /\ \/ \E e \in RemoteErrors : LegacyFail("fetch_order_book", e)
       \/ \E book \in OrderBooks :
            /\ LegacyOk("fetch_order_book",
                 <<[kind |-> "legacy_orderbook", bids |-> Len(book.bids),
                    asks |-> Len(book.asks)]>>)
            /\ UNCHANGED pairs_data

LegacyTrades ==
    /\ cmd = "main_legacy" /\ pc = "fetch_trades"
    /\ \/ \E e \in RemoteErrors : LegacyFail("fetch_trades", e)
       \/ \E trades_data \in TradeLists :
            /\ LegacyOk("fetch_trades",
                 <<[kind |-> "legacy_trades", count |-> Len(trades_data)]>>)
            /\ UNCHANGED pairs_data

----------------------------------------------------------------------------
Next ==
    \/ pairs
    \/ ohlcv
    \/ orderbook
    \/ trades
    \/ funding
    \/ LegacyBegin
    \/ LegacyPairs
    \/ LegacyOhlcv
    \/ LegacyOrderBook
    \/ LegacyTrades

Spec == Init /\ [][Next]_vars

----------------------------------------------------------------------------
(* Properties *)

Lines(k) == LET Test(l) == l.kind = k IN SelectSeq(out, Test)
Count(k) == Len(Lines(k))

Finished(c) == cmd = c /\ pc \in {"done", "raised"}

\* command c ran and its remote query returned a reply
GotReply(c) == Finished(c) /\ failure = "none"

DirectCommands == {"pairs", "ohlcv", "orderbook", "trades"}

\* C1: when the order book reply has no bids or no asks, the orderbook
\* command prints no spread line, raises nothing and returns normally.
C1_EmptySideNoSpread ==
    (GotReply("orderbook") /\ (response.bids = <<>> \/ response.asks = <<>>))
    => (Count("spread") = 0 /\ raised = "none" /\ pc = "done")

C1_Witness ==
    /\ GotReply("orderbook") /\ pc = "done"
    /\ response.bids = <<>> /\ response.asks # <<>>

\* C2 as stated: when both sides are non-empty a spread line is printed with
\* spread = first ask price - first bid price, the spread is >= 0, and the
\* percentage is computed without error.
C2_Original ==
    (GotReply("orderbook") /\ response.bids # <<>> /\ response.asks # <<>>)
    => /\ raised = "none"
       /\ Count("spread") = 1
       /\ Lines("spread")[1].spread
            = response.asks[1][1] - response.bids[1][1]
       /\ Lines("spread")[1].spread >= 0

\* C2 amended: when both sides are non-empty and the first ask price is not
\* zero, one spread line is printed with spread = first ask price - first bid
\* price and spread_pct = spread * 100 / first ask price, and the spread is
\* >= 0 exactly when the first ask is not below the first bid; when the first
\* ask price is zero the division raises ZeroDivisionError and no spread line
\* is printed.
C2_SpreadOfBestPrices ==
    (GotReply("orderbook") /\ response.bids # <<>> /\ response.asks # <<>>)
    => LET best_bid == response.bids[1][1]
           best_ask == response.asks[1][1]
       IN  IF best_ask = 0
           THEN raised = "ZeroDivisionError" /\ Count("spread") = 0
           ELSE /\ raised = "none" /\ pc = "done"
                /\ Count("spread") = 1
                /\ Lines("spread")[1].spread = best_ask - best_bid
                /\ Lines("spread")[1].spread_pct
                     = <<(best_ask - best_bid) * 100, best_ask>>
                /\ (Lines("spread")[1].spread >= 0 <=> best_ask >= best_bid)

C2_Witness ==
    /\ GotReply("orderbook") /\ pc = "done"
    /\ Count("spread") = 1
    /\ Lines("spread")[1].spread < 0
    /\ Len(response.bids) = 2

\* C3 as stated: when one side of the reply is empty and the other is not,
\* every level of the non-empty side (up to the display cap) is printed, the
\* header of the empty side reads "Top 0", and no spread line is printed.
C3_Original ==
    /\ (GotReply("orderbook") /\ response.bids # <<>> /\ response.asks = <<>>)
       => /\ Count("bid") = Min(OrderbookDisplayCap, Len(response.bids))
          /\ Lines("asks_header")[1].top = 0
          /\ Count("spread") = 0
    /\ (GotReply("orderbook") /\ response.asks # <<>> /\ response.bids = <<>>)
       => /\ Count("ask") = Min(OrderbookDisplayCap, Len(response.asks))
          /\ Lines("bids_header")[1].top = 0
          /\ Count("spread") = 0

\* the amounts of the first n trades of t whose side is `side`
RECURSIVE AmountOf(_, _, _)
AmountOf(t, side, n) ==
    IF n = 0 THEN 0
    ELSE AmountOf(t, side, n - 1)
         + (IF t[n].side = side THEN t[n].amount ELSE 0)

\* C4: when the buy amounts plus the sell amounts of the reply are > 0, the
\* trades command prints one ratio line whose two percentages sum to 100;
\* when they are 0 (no trades, or only trades of another side or of amount 0)
\* it prints no ratio line and raises nothing.
C4_RatioSumsTo100 ==
    GotReply("trades")
    => LET buy == AmountOf(response, "buy", Len(response))
           sell == AmountOf(response, "sell", Len(response))
       IN  /\ raised = "none"
           /\ (buy + sell = 0) => Count("ratio") = 0
           /\ (buy + sell > 0) =>
                /\ Count("ratio") = 1
                /\ LET b == Lines("ratio")[1].buy_pct
                       s == Lines("ratio")[1].sell_pct
                   IN  /\ b[2] > 0 /\ s[2] > 0
                       /\ b[1] * s[2] + s[1] * b[2] = 100 * b[2] * s[2]

C4_Witness ==
    /\ GotReply("trades")
    /\ Count("ratio") = 1
    /\ Lines("ratio")[1].buy_pct[1] > 0
    /\ Lines("ratio")[1].sell_pct[1] > Lines("ratio")[1].buy_pct[1]
    /\ \E i \in 1..Len(response) : response[i].side = "None"

\* the catalog entries whose linear and active flags are both true
LinearActive(catalog) ==
    LET Test(item) == item[2].linear = "True" /\ item[2].active = "True"
    IN  SelectSeq(catalog, Test)

\* C5: fetch_futures_pairs_data returns exactly the catalog entries with
\* linear = true and active = true, in catalog order, with symbol, base and
\* quote unmodified and the contract size the catalog gives, or 1 when the
\* entry has no contractSize.
C5_PairsAreLinearActive ==
    GotReply("pairs")
    => LET kept == LinearActive(response)
       IN  /\ Len(pairs_data) = Len(kept)
           /\ \A i \in 1..Len(kept) :
                /\ pairs_data[i].symbol = kept[i][1]
                /\ pairs_data[i].base = kept[i][2].base
                /\ pairs_data[i].quote = kept[i][2].quote
                /\ pairs_data[i].contract_size
                     = IF "contractSize" \in DOMAIN kept[i][2]
                       THEN kept[i][2].contractSize ELSE 1

C5_Witness ==
    /\ GotReply("pairs")
    /\ Len(response) = 2 /\ Len(pairs_data) = 1
    /\ response[1][2].linear = "True" /\ response[1][2].active # "True"
    /\ pairs_data[1].symbol = response[2][1]
    /\ "contractSize" \notin DOMAIN response[2][2]

\* the reply makes the try block of funding raise
FundingReplyBad(r) ==
    \/ r.shape = "list"
    \/ \E k \in {"symbol", "lastFundingRate", "markPrice", "indexPrice",
                 "nextFundingTime"} : r[k] = "missing"
    \/ \E k \in {"lastFundingRate", "markPrice", "indexPrice"} : r[k] = "str"

\* C6: whatever fails in funding after the client is created (the remote
\* query raising, a missing field, a field or reply of an unexpected type),
\* exactly one error line is printed and the command returns without raising.
C6_FundingSwallows ==
    (cmd = "funding" /\ pc # "start")
    => /\ pc = "done" /\ raised = "none"
       /\ Count("error")
            = IF failure # "none" \/ FundingReplyBad(response) THEN 1 ELSE 0

C6_Witness ==
    /\ cmd = "funding" /\ pc = "done"
    /\ failure = "none" /\ caught = "ValueError"
    /\ Count("error") = 1 /\ Count("funding_field") = 1

\* the queries of legacy mode with their arguments, in the order stated
LegacyPlan ==
    <<[method |-> "load_markets", pos |-> <<>>],
      [method |-> "fetch_ohlcv", pos |-> <<"BTC/USDT:USDT", "1h", 100>>],
      [method |-> "fetch_order_book", pos |-> <<"BTC/USDT:USDT", 20>>],
      [method |-> "fetch_trades", pos |-> <<"BTC/USDT:USDT", 50>>]>>

\* C7: legacy mode issues pair listing, OHLCV, order book and trades in that
\* order with the fixed defaults; when a query fails with a library error one
\* message is logged and the error is re-raised, no query follows a failed
\* one, and the completion summary is printed only after four successes.
C7_LegacySequence ==
    cmd = "main_legacy"
    => /\ Len(calls) <= 4
       /\ \A i \in 1..Len(calls) :
            /\ calls[i].method = LegacyPlan[i].method
            /\ calls[i].pos = LegacyPlan[i].pos
       /\ \A i \in 1..Len(calls) : i < Len(calls) => calls[i].outcome = "ok"
       /\ (failure # "none" /\ IsInstance(failure, "BaseError"))
            => /\ Count("error") = 1
               /\ raised = failure /\ pc = "raised"
               /\ calls[Len(calls)].outcome = failure
       /\ pc = "raised" => Count("complete") = 0
       /\ Count("complete") > 0
            => /\ Len(calls) = 4
               /\ \A i \in 1..4 : calls[i].outcome = "ok"

C7_Witness ==
    /\ cmd = "main_legacy" /\ pc = "raised"
    /\ Len(calls) = 3 /\ failure = "BadSymbol"
    /\ Lines("error")[1].prefix = "Exchange error"

\* C8 as stated: in pairs, ohlcv, orderbook, trades and legacy mode a library
\* error raised by the remote query is logged with a message and re-raised;
\* funding alone suppresses it.
C8_Original ==
    (failure # "none" /\ IsInstance(failure, "BaseError"))
    => IF cmd = "funding" THEN raised = "none"
       ELSE Count("error") = 1 /\ raised = failure

\* C8 amended: in legacy mode a library error raised by a remote query is
\* logged with a message and re-raised; in pairs, ohlcv, orderbook and trades
\* it reaches the caller with no message printed by the command; funding
\* alone suppresses it.
C8_LoggedOnlyInLegacy ==
    (failure # "none" /\ IsInstance(failure, "BaseError"))
    => CASE cmd = "funding" -> raised = "none" /\ pc = "done"
         [] cmd = "main_legacy" ->
              Count("error") = 1 /\ raised = failure /\ pc = "raised"
         [] OTHER ->
              Count("error") = 0 /\ raised = failure /\ pc = "raised"

C8_Witness ==
    /\ cmd \in DirectCommands /\ pc = "raised"
    /\ failure = "ExchangeError" /\ raised = "ExchangeError"
    /\ Count("error") = 0

\* C9 as stated: the pairs command reports the full count n, prints the first
\* min(L, n) entries in list order, and announces a count equal to the number
\* of pair lines printed.
C9_Original ==
    GotReply("pairs")
    => LET n == Len(pairs_data)
           first == SubSeq(pairs_data, 1, Min(args.limit, n))
       IN  /\ Lines("found")[1].count = n
           /\ Count("pair") = Len(first)
           /\ \A i \in 1..Len(first) :
                Lines("pair")[i].symbol = first[i].symbol
           /\ Lines("displaying")[1].count = Count("pair")

\* C10: an invocation creates one client; a direct command or funding issues
\* exactly one remote query, legacy mode at most four; no query is issued
\* after a failed one and no query is issued twice.
C10_NoRetries ==
    /\ clients <= 1
    /\ pc # "start" => clients = 1
    /\ (cmd # "main_legacy" /\ pc \in {"done", "raised"}) => Len(calls) = 1
    /\ cmd = "main_legacy" => Len(calls) <= 4
    /\ \A i \in 1..Len(calls) : i < Len(calls) => calls[i].outcome = "ok"
    /\ \A i, j \in 1..Len(calls) :
         i # j => calls[i].method # calls[j].method

C10_Witness ==
    /\ cmd = "main_legacy" /\ pc = "raised"
    /\ Len(calls) = 2 /\ calls[2].outcome = "RequestTimeout"
    /\ calls[1].outcome = "ok"

====
